---- MODULE Spec2Model ----
(***************************************************************************)
(* Universal Sigil Generator: the text normaliser, the Spare reducer, the  *)
(* five encoders, the planetary-influence oracle and the Tk callbacks that *)
(* drive them.                                                             *)
(*                                                                         *)
(* Characters are named tokens ("e_acute" is U+00E9, "E_ACUTE" is U+00C9,  *)
(* "ALEF" is U+05D0, ...); a Python str is a sequence of tokens.           *)
(* A point is a record [shape, a, b, c] that keeps the exact integers the  *)
(* code feeds to cos/sin or to the cell arithmetic (cx, cy and radius are  *)
(* the same in every call that is compared).                               *)
(***************************************************************************)
EXTENDS Integers, Sequences, FiniteSets, TLC

VARIABLES
    raw,       \* the raw input string of the text layer
    call,      \* the call applied to it
    ret,       \* what that call returned or raised
    gui,       \* the Tk variables and widgets of run_gui
    prev       \* the previous run of generate (call and outcome)

(***************************************************************************)
(* Bounds                                                                  *)
(***************************************************************************)
MaxLen == 2

\* the largest argument reduce_number is called with
MaxN == 200

(***************************************************************************)
(* Generic sequence helpers                                                *)
(***************************************************************************)
RECURSIVE IndexOf(_, _)
\* str.index / dict built by enumerate: 0-based position of ch in s, -1 if absent
IndexOf(s, ch) ==
    IF s = <<>> THEN -1
    ELSE IF Head(s) = ch THEN 0
    ELSE LET r == IndexOf(Tail(s), ch) IN IF r = -1 THEN -1 ELSE r + 1

Range(s) == {s[i] : i \in 1..Len(s)}

RECURSIVE SeqsUpTo(_, _)
\* every sequence over S of length at most n
SeqsUpTo(S, n) ==
    IF n = 0 THEN {<<>>}
    ELSE LET shorter == SeqsUpTo(S, n - 1)
         IN  shorter \cup {Append(s, x) : s \in {t \in shorter : Len(t) = n - 1}, x \in S}

(***************************************************************************)
(* Character tables                                                        *)
(***************************************************************************)
LOWER_LATIN ==
    <<"a","b","c","d","e","f","g","h","i","j","k","l","m",
      "n","o","p","q","r","s","t","u","v","w","x","y","z">>

UPPER_LATIN ==
    <<"A","B","C","D","E","F","G","H","I","J","K","L","M",
      "N","O","P","Q","R","S","T","U","V","W","X","Y","Z">>

ASCII_DIGITS == <<"D0","D1","D2","D3","D4","D5","D6","D7","D8","D9">>

\* the characters the replacements table and the Latin regex name, upper and lower
SPECIAL_UPPER ==
    <<"N_TILDE","C_CEDILLA","A_ACUTE","E_ACUTE","I_ACUTE","O_ACUTE","U_ACUTE","U_DIAERESIS">>

SPECIAL_LOWER ==
    <<"n_tilde","c_cedilla","a_acute","e_acute","i_acute","o_acute","u_acute","u_diaeresis">>

HEBREW_22 ==
    <<"ALEF","BET","GIMEL","DALET","HE","VAV","ZAYIN","HET","TET","YOD","KAF",
      "LAMED","MEM","NUN","SAMEKH","AYIN","PE","TSADI","QOF","RESH","SHIN","TAV">>

LowerLatin == Range(LOWER_LATIN)

UpperLatin == Range(UPPER_LATIN)

SpecialLower == Range(SPECIAL_LOWER)

SpecialUpper == Range(SPECIAL_UPPER)

Hebrew == Range(HEBREW_22)

AsciiDigits == Range(ASCII_DIGITS)

\* str.upper() of the lower-case letters above
ToUpper ==
    [ch \in LowerLatin \cup SpecialLower |->
        IF ch \in LowerLatin
        THEN UPPER_LATIN[IndexOf(LOWER_LATIN, ch) + 1]
        ELSE SPECIAL_UPPER[IndexOf(SPECIAL_LOWER, ch) + 1]]

CombiningMarks == {"COMB_GRAVE", "COMB_ACUTE", "COMB_TILDE", "COMB_CEDILLA", "COMB_DIAERESIS"}

\* str.upper(), one character at a time (it is context-free); U+00DF expands
UpperChar(ch) ==
    IF ch \in DOMAIN ToUpper THEN <<ToUpper[ch]>>
    ELSE IF ch = "e_grave" THEN <<"E_GRAVE">>
    ELSE IF ch = "sharp_s" THEN <<"S", "S">>
    ELSE <<ch>>

RECURSIVE Upper(_)
Upper(s) == IF s = <<>> THEN <<>> ELSE UpperChar(Head(s)) \o Upper(Tail(s))

\* unicodedata.normalize("NFD", ch)
NFD(ch) ==
    CASE ch = "E_GRAVE"     -> <<"E", "COMB_GRAVE">>
      [] ch = "e_grave"     -> <<"e", "COMB_GRAVE">>
      [] ch = "A_ACUTE"     -> <<"A", "COMB_ACUTE">>
      [] ch = "E_ACUTE"     -> <<"E", "COMB_ACUTE">>
      [] ch = "I_ACUTE"     -> <<"I", "COMB_ACUTE">>
      [] ch = "O_ACUTE"     -> <<"O", "COMB_ACUTE">>
      [] ch = "U_ACUTE"     -> <<"U", "COMB_ACUTE">>
      [] ch = "U_DIAERESIS" -> <<"U", "COMB_DIAERESIS">>
      [] ch = "N_TILDE"     -> <<"N", "COMB_TILDE">>
      [] ch = "C_CEDILLA"   -> <<"C", "COMB_CEDILLA">>
      [] ch = "a_acute"     -> <<"a", "COMB_ACUTE">>
      [] ch = "e_acute"     -> <<"e", "COMB_ACUTE">>
      [] ch = "i_acute"     -> <<"i", "COMB_ACUTE">>
      [] ch = "o_acute"     -> <<"o", "COMB_ACUTE">>
      [] ch = "u_acute"     -> <<"u", "COMB_ACUTE">>
      [] ch = "u_diaeresis" -> <<"u", "COMB_DIAERESIS">>
      [] ch = "n_tilde"     -> <<"n", "COMB_TILDE">>
      [] ch = "c_cedilla"   -> <<"c", "COMB_CEDILLA">>
      [] OTHER              -> <<ch>>

\* unicodedata.combining(c) != 0
Combining(c) == c \in CombiningMarks

\* str.isalpha() of one character
IsAlpha(ch) ==
    \/ ch \in LowerLatin \cup UpperLatin
    \/ ch \in SpecialLower \cup SpecialUpper
    \/ ch \in {"e_grave", "E_GRAVE", "sharp_s"}
    \/ ch \in Hebrew

\* str.isdigit() of one character: the ASCII digits and, e.g., U+00B2
IsDigit(ch) == ch \in AsciiDigits \cup {"SUP2"}

\* int(ch) of an ASCII digit (int("²") raises ValueError)
DigitValues == [ch \in AsciiDigits |-> IndexOf(ASCII_DIGITS, ch)]

DigitValue(ch) == DigitValues[ch]

(***************************************************************************)
(* core.py: the text normaliser                                            *)
(***************************************************************************)
\* the replacements dict of preserve_special_characters
replacements ==
    [ch \in SpecialLower \cup SpecialUpper |->
        IF ch \in SpecialLower THEN ToUpper[ch] ELSE ch]

\* the else branch: NFD, then drop the combining marks
StripMarks(ch) == SelectSeq(NFD(ch), LAMBDA c : ~Combining(c))

RECURSIVE FoldEverything(_)
\* the pass without its replacements table: every character is decomposed
FoldEverything(s) ==
    IF s = <<>> THEN <<>> ELSE StripMarks(Head(s)) \o FoldEverything(Tail(s))

RECURSIVE preserve_special_characters(_)
preserve_special_characters(s) ==
    IF s = <<>> THEN <<>>
    ELSE (IF Head(s) \in DOMAIN replacements
          THEN <<replacements[Head(s)]>>
          ELSE StripMarks(Head(s)))
         \o preserve_special_characters(Tail(s))

\* the character class of the Latin re.sub
LatinAllowed == UpperLatin \cup SpecialUpper \cup AsciiDigits

\* the character class of the Hebrew re.sub
HebrewAllowed == Hebrew \cup AsciiDigits

Str(v) == [kind |-> "str", value |-> v]

Raise(k) == [kind |-> k, value |-> <<>>]

RECURSIVE DropFirstOutside(_, _)
\* re.sub called with count=1: only the first character outside the class goes
DropFirstOutside(s, allowed) ==
    IF s = <<>> THEN <<>>
    ELSE IF Head(s) \notin allowed THEN Tail(s)
    ELSE <<Head(s)>> \o DropFirstOutside(Tail(s), allowed)

\* re.sub(r"[^...]", "", s): every character outside the class is removed
ReSubOutside(s, allowed) == SelectSeq(s, LAMBDA c : c \in allowed)

normalize_text(phrase, alphabet) ==
    LET s == preserve_special_characters(Upper(phrase))
    IN  IF alphabet = "latin" THEN Str(ReSubOutside(s, LatinAllowed))
        ELSE IF alphabet = "hebrew" THEN Str(ReSubOutside(s, HebrewAllowed))
        ELSE Raise("UnsupportedAlphabet")

(***************************************************************************)
(* core.py: the Spare reducer                                              *)
(***************************************************************************)
SpareVowels ==
    {"A", "E", "I", "O", "U", "A_ACUTE", "E_ACUTE", "I_ACUTE", "O_ACUTE", "U_ACUTE", "U_DIAERESIS"}

RECURSIVE SpareLoop(_, _, _)
\* the for loop of clean_spare_text: s is what is left to walk
SpareLoop(s, seen, result) ==
    IF s = <<>> THEN result
    ELSE LET ch == Head(s)
         IN  IF IsAlpha(ch) /\ ch \notin SpareVowels /\ ch \notin seen
             THEN SpareLoop(Tail(s), seen \cup {ch}, Append(result, ch))
             ELSE SpareLoop(Tail(s), seen, result)

RECURSIVE SpareLoopNoSeen(_, _)
\* the loop without its "not in seen" test
SpareLoopNoSeen(s, result) ==
    IF s = <<>> THEN result
    ELSE IF IsAlpha(Head(s)) /\ Head(s) \notin SpareVowels
         THEN SpareLoopNoSeen(Tail(s), Append(result, Head(s)))
         ELSE SpareLoopNoSeen(Tail(s), result)

clean_spare_text_keeps_duplicates(phrase) == SpareLoopNoSeen(Upper(phrase), <<>>)

clean_spare_text(phrase) == SpareLoop(Upper(phrase), {}, <<>>)

(***************************************************************************)
(* config.py: the static tables.  The file is not among the sources at     *)
(* hand; the tables follow the documented data model (letter sets, magic   *)
(* squares of order 3..9, planet letter sets, Rose Cross groups).          *)
(***************************************************************************)
LETTERS_LATIN == UPPER_LATIN

LETTERS_EXT == UPPER_LATIN \o SPECIAL_UPPER

LETTERS_HEBREW == HEBREW_22

ALPHABET == LETTERS_EXT

\* {ch: i for i, ch in enumerate(ALPHABET)}
alpha_index == [ch \in Range(ALPHABET) |-> IndexOf(ALPHABET, ch)]

\* list(KAMEA_SQUARES.keys())
KameaPlanets == <<"saturn", "jupiter", "mars", "sun", "venus", "mercury", "moon">>

KameaKeys == Range(KameaPlanets)

KAMEA_SQUARES(planet) ==
    IF planet = "saturn" THEN
      << <<4, 9, 2>>,
         <<3, 5, 7>>,
         <<8, 1, 6>> >>
    ELSE
    IF planet = "jupiter" THEN
      << <<4, 14, 15, 1>>,
         <<9, 7, 6, 12>>,
         <<5, 11, 10, 8>>,
         <<16, 2, 3, 13>> >>
    ELSE
    IF planet = "mars" THEN
      << <<11, 24, 7, 20, 3>>,
         <<4, 12, 25, 8, 16>>,
         <<17, 5, 13, 21, 9>>,
         <<10, 18, 1, 14, 22>>,
         <<23, 6, 19, 2, 15>> >>
    ELSE
    IF planet = "sun" THEN
      << <<6, 32, 3, 34, 35, 1>>,
         <<7, 11, 27, 28, 8, 30>>,
         <<19, 14, 16, 15, 23, 24>>,
         <<18, 20, 22, 21, 17, 13>>,
         <<25, 29, 10, 9, 26, 12>>,
         <<36, 5, 33, 4, 2, 31>> >>
    ELSE
    IF planet = "venus" THEN
      << <<22, 47, 16, 41, 10, 35, 4>>,
         <<5, 23, 48, 17, 42, 11, 29>>,
         <<30, 6, 24, 49, 18, 36, 12>>,
         <<13, 31, 7, 25, 43, 19, 37>>,
         <<38, 14, 32, 1, 26, 44, 20>>,
         <<21, 39, 8, 33, 2, 27, 45>>,
         <<46, 15, 40, 9, 34, 3, 28>> >>
    ELSE
    IF planet = "mercury" THEN
      << <<8, 58, 59, 5, 4, 62, 63, 1>>,
         <<49, 15, 14, 52, 53, 11, 10, 56>>,
         <<41, 23, 22, 44, 45, 19, 18, 48>>,
         <<32, 34, 35, 29, 28, 38, 39, 25>>,
         <<40, 26, 27, 37, 36, 30, 31, 33>>,
         <<17, 47, 46, 20, 21, 43, 42, 24>>,
         <<9, 55, 54, 12, 13, 51, 50, 16>>,
         <<64, 2, 3, 61, 60, 6, 7, 57>> >>
    ELSE
    IF planet = "moon" THEN
      << <<37, 78, 29, 70, 21, 62, 13, 54, 5>>,
         <<6, 38, 79, 30, 71, 22, 63, 14, 46>>,
         <<47, 7, 39, 80, 31, 72, 23, 55, 15>>,
         <<16, 48, 8, 40, 81, 32, 64, 24, 56>>,
         <<57, 17, 49, 9, 41, 73, 33, 65, 25>>,
         <<26, 58, 18, 50, 1, 42, 74, 34, 66>>,
         <<67, 27, 59, 10, 51, 2, 43, 75, 35>>,
         <<36, 68, 19, 60, 11, 52, 3, 44, 76>>,
         <<77, 28, 69, 20, 61, 12, 53, 4, 45>> >>
    ELSE
      << >>

\* list(PLANETARY_MAP.keys())
planets == <<"saturn", "jupiter", "mars", "sun", "venus", "mercury", "moon">>

\* a letter may sit in no set, in one, or in several ("S" is in two)
PLANETARY_MAP(planet) ==
    CASE planet = "saturn"  -> {"A", "H", "O", "V"}
      [] planet = "jupiter" -> {"B", "I", "P", "W"}
      [] planet = "mars"    -> {"C", "J", "Q", "X"}
      [] planet = "sun"     -> {"D", "K", "R", "Y", "S"}
      [] planet = "venus"   -> {"E", "L", "S", "Z"}
      [] planet = "mercury" -> {"F", "M", "T"}
      [] planet = "moon"    -> {"G", "N", "U"}

RoseGroups == <<"up", "down", "right", "left", "center">>

ROSE_CROSS_MAP(group) ==
    CASE group = "up"     -> <<"A", "B", "C", "D", "E", "F">>
      [] group = "down"   -> <<"G", "H", "I", "J", "K", "L">>
      [] group = "left"   -> <<"M", "N", "O", "P", "Q", "R">>
      [] group = "right"  -> <<"S", "T", "U", "V", "W", "X">>
      [] group = "center" -> <<"Y", "Z">>

RoseSets == [g \in Range(RoseGroups) |-> Range(ROSE_CROSS_MAP(g))]

(***************************************************************************)
(* Points and results                                                      *)
(***************************************************************************)
\* circle: angle 2*pi*a/b - pi/2 + c*pi/180;  cell: row a, column b of a c x c
\* grid;  up/down/left/right: a steps of radius/6 along the arm;  center:
\* angle 2*pi*a/b on the circle of radius/6
Point(shape, a, b, c) == [shape |-> shape, a |-> a, b |-> b, c |-> c]

\* a point together with the 1-based position, in the text the encoder walks,
\* of the character that produced it (bookkeeping; the code returns the points)
Emit(pt, i) == [pt |-> pt, src |-> i]

Returned(ems, walked) == [kind |-> "points", ems |-> ems, walked |-> walked]

Raised(k, walked) == [kind |-> k, ems |-> <<>>, walked |-> walked]

Points(r) == [i \in 1..Len(r.ems) |-> r.ems[i].pt]

(***************************************************************************)
(* core.py / methods.py: the five encoders                                 *)
(***************************************************************************)
\* alpha_index[ch] raises KeyError for a character ALPHABET does not hold
get_letter_position(ch, rotation_deg) ==
    IF ch \notin DOMAIN alpha_index
    THEN [kind |-> "KeyError"]
    ELSE [kind |-> "point", pt |-> Point("circle", alpha_index[ch], Len(ALPHABET), rotation_deg)]

\* each consonant placed by its position in the cleaned phrase, not by alpha_index
classical_by_phrase_position(text, rotation_deg) ==
    LET cleaned == clean_spare_text(text)
    IN  IF \E i \in 1..Len(cleaned) : cleaned[i] \notin DOMAIN alpha_index
        THEN Raised("KeyError", cleaned)
        ELSE IF Len(cleaned) = 0
        THEN Raised("EmptyResult", cleaned)
        ELSE Returned([i \in 1..Len(cleaned) |->
                          Emit(Point("circle", i - 1, Len(ALPHABET), rotation_deg), i)],
                      cleaned)

classical(text, rotation_deg) ==
    LET cleaned == clean_spare_text(text)
        pos == [i \in 1..Len(cleaned) |-> get_letter_position(cleaned[i], rotation_deg)]
    IN  IF \E i \in 1..Len(cleaned) : pos[i].kind = "KeyError"
        THEN Raised("KeyError", cleaned)
        ELSE IF Len(cleaned) = 0
        THEN Raised("EmptyResult", cleaned)
        ELSE Returned([i \in 1..Len(cleaned) |-> Emit(pos[i].pt, i)], cleaned)

\* sum of the last two digits only
DigitSumLastTwo(n) == (n % 10) + ((n \div 10) % 10)

RECURSIVE DigitSum(_)
\* sum(int(d) for d in str(n))
DigitSum(n) == IF n < 10 THEN n ELSE (n % 10) + DigitSum(n \div 10)

RECURSIVE reduce_number(_)
reduce_number(n) == IF n > 9 THEN reduce_number(DigitSum(n)) ELSE n

\* {ch: (i % 9) + 1 for i, ch in enumerate(LETTERS_LATIN)}
NumericMapping == [ch \in Range(LETTERS_LATIN) |-> (IndexOf(LETTERS_LATIN, ch) % 9) + 1]

RECURSIVE NumericLoop(_, _, _)
\* int(ch) raises ValueError for a digit int() cannot parse (isdigit is wider)
NumericLoop(text, i, points) ==
    IF i > Len(text) THEN [ok |-> TRUE, ems |-> points]
    ELSE LET ch == text[i]
         IN  IF IsDigit(ch)
             THEN IF ch \in AsciiDigits
                  THEN NumericLoop(text, i + 1,
                          Append(points, Emit(Point("circle", reduce_number(DigitValue(ch)), 9, 0), i)))
                  ELSE [ok |-> FALSE, ems |-> <<>>]
             ELSE IF ch \in DOMAIN NumericMapping
             THEN NumericLoop(text, i + 1,
                     Append(points, Emit(Point("circle", NumericMapping[ch], 9, 0), i)))
             ELSE NumericLoop(text, i + 1, points)

numeric(text, rotation_deg) ==
    LET t == normalize_text(text, "latin").value
        loop == NumericLoop(t, 1, <<>>)
    IN  IF ~loop.ok THEN Raised("InvalidLiteral", t)
        ELSE IF loop.ems = <<>> THEN Raised("EmptyResult", t)
        ELSE Returned(loop.ems, t)

RECURSIVE PlanetScan(_, _, _, _)
\* the inner loop over enumerate(planets), idx 0-based
PlanetScan(ch, i, idx, points) ==
    IF idx >= Len(planets) THEN points
    ELSE IF ch \in PLANETARY_MAP(planets[idx + 1])
         THEN PlanetScan(ch, i, idx + 1,
                 Append(points, Emit(Point("circle", idx, Len(planets), 0), i)))
         ELSE PlanetScan(ch, i, idx + 1, points)

\* the two loops exchanged: planets outside, characters inside
PlanetaryLoopPlanetMajor(text, i, points) ==
    LET hits == {<<idx, j>> \in (0..(Len(planets) - 1)) \X (1..Len(text)) :
                    text[j] \in PLANETARY_MAP(planets[idx + 1])}
        order == [k \in 1..(Len(planets) * Len(text)) |->
                    <<(k - 1) \div Len(text), ((k - 1) % Len(text)) + 1>>]
        kept == SelectSeq(order, LAMBDA h : h \in hits)
    IN  [k \in 1..Len(kept) |-> Emit(Point("circle", kept[k][1], Len(planets), 0), kept[k][2])]

RECURSIVE PlanetaryLoop(_, _, _)
PlanetaryLoop(text, i, points) ==
    IF i > Len(text) THEN points
    ELSE PlanetaryLoop(text, i + 1, points \o PlanetScan(text[i], i, 0, <<>>))

planetary(text, rotation_deg) ==
    LET t == normalize_text(text, "latin").value
        points == PlanetaryLoop(t, 1, <<>>)
    IN  IF points = <<>> THEN Raised("EmptyResult", t) ELSE Returned(points, t)

\* for row in range(size): for col in range(size): the matching cells, row-major
\* (cell number k = row*size + col)
SquareScan(square, target, i) ==
    LET size == Len(square)
        cells == [k \in 1..(size * size) |-> k - 1]
        hits == SelectSeq(cells, LAMBDA k : square[(k \div size) + 1][(k % size) + 1] = target)
    IN  [j \in 1..Len(hits) |-> Emit(Point("cell", hits[j] \div size, hits[j] % size, size), i)]

RECURSIVE KameaLoopDigitsCycled(_, _, _, _, _)
\* digits cycled over the square like letter indices: target = (int(ch) % size²) + 1
KameaLoopDigitsCycled(text, square, mapping, i, points) ==
    IF i > Len(text) THEN [ok |-> TRUE, ems |-> points]
    ELSE LET ch == text[i]
             size == Len(square)
         IN  IF ch \in DOMAIN mapping
             THEN KameaLoopDigitsCycled(text, square, mapping, i + 1,
                     points \o SquareScan(square, mapping[ch], i))
             ELSE IF IsDigit(ch)
             THEN IF ch \in AsciiDigits
                  THEN KameaLoopDigitsCycled(text, square, mapping, i + 1,
                          points \o SquareScan(square, (DigitValue(ch) % (size * size)) + 1, i))
                  ELSE [ok |-> FALSE, ems |-> <<>>]
             ELSE KameaLoopDigitsCycled(text, square, mapping, i + 1, points)

RECURSIVE KameaLoop(_, _, _, _, _)
\* the result is the emissions, or ok = FALSE when int(ch) raised ValueError
KameaLoop(text, square, mapping, i, points) ==
    IF i > Len(text) THEN [ok |-> TRUE, ems |-> points]
    ELSE LET ch == text[i]
         IN  IF ch \in DOMAIN mapping
             THEN KameaLoop(text, square, mapping, i + 1,
                     points \o SquareScan(square, mapping[ch], i))
             ELSE IF IsDigit(ch)
             THEN IF ch \in AsciiDigits
                  THEN KameaLoop(text, square, mapping, i + 1,
                          points \o SquareScan(square, DigitValue(ch), i))
                  ELSE [ok |-> FALSE, ems |-> <<>>]
             ELSE KameaLoop(text, square, mapping, i + 1, points)

\* enumerate(letters) for the two letter strings
LettersIndex ==
    [a \in {"latin", "hebrew"} |->
        LET letters == IF a = "latin" THEN LETTERS_EXT ELSE LETTERS_HEBREW
        IN  [ch \in Range(letters) |-> IndexOf(letters, ch)]]

kamea(text, rotation_deg, planet, alphabet) ==
    IF planet \notin KameaKeys THEN Raised("UnknownPlanet", text)
    ELSE IF alphabet \notin {"latin", "hebrew"} THEN Raised("UnsupportedAlphabet", text)
    ELSE LET square == KAMEA_SQUARES(planet)
             size == Len(square)
             mapping == [ch \in DOMAIN LettersIndex[alphabet] |->
                            (LettersIndex[alphabet][ch] % (size * size)) + 1]
             r == KameaLoop(text, square, mapping, 1, <<>>)
         IN  IF ~r.ok THEN Raised("InvalidLiteral", text)
             ELSE IF r.ems = <<>> THEN Raised("EmptyResult", text)
             ELSE Returned(r.ems, text)

RECURSIVE RoseLoop(_, _, _)
RoseLoop(text, i, points) ==
    IF i > Len(text) THEN points
    ELSE LET ch == text[i]
             hit == {k \in 1..Len(RoseGroups) : ch \in RoseSets[RoseGroups[k]]}
         IN  IF hit = {} THEN RoseLoop(text, i + 1, points)
             ELSE LET g == RoseGroups[CHOOSE k \in hit : \A m \in hit : k <= m]
                      idx == IndexOf(ROSE_CROSS_MAP(g), ch)
                  IN  RoseLoop(text, i + 1,
                         Append(points,
                            Emit(IF g = "center"
                                 THEN Point("center", idx, Len(ROSE_CROSS_MAP("center")), 0)
                                 ELSE Point(g, idx + 1, 0, 0), i)))

rosicrucian(text, rotation_deg) ==
    LET points == RoseLoop(text, 1, <<>>)
    IN  IF points = <<>> THEN Raised("EmptyResult", text) ELSE Returned(points, text)

\* methods_map[method](text=..., rotation_deg=..., ...)
Encoder(method, text, rotation_deg, planet, alphabet) ==
    CASE method = "classical"   -> classical(text, rotation_deg)
      [] method = "numeric"     -> numeric(text, rotation_deg)
      [] method = "planetary"   -> planetary(text, rotation_deg)
      [] method = "kamea"       -> kamea(text, rotation_deg, planet, alphabet)
      [] method = "rosicrucian" -> rosicrucian(text, rotation_deg)

Methods == {"classical", "numeric", "planetary", "kamea", "rosicrucian"}

(***************************************************************************)
(* draw.py: generate_sigil, up to the points it hands to the drawing code  *)
(***************************************************************************)
\* rotation_deg=(len(phrase) * 7) % 360
SigilRotation(phrase) == (Len(phrase) * 7) % 360

\* points = method_func(cx=cx, cy=cy, radius=outer_radius, text=phrase, rotation_deg=...)
generate_sigil(phrase, method, planet, alphabet) ==
    Encoder(method, phrase, SigilRotation(phrase), planet, alphabet)

(***************************************************************************)
(* core.py: the planetary-influence oracle.  Instants are minutes since    *)
(* today's midnight; sunrise and sunset are today's; the Sun's longitude   *)
(* is in whole degrees.                                                    *)
(***************************************************************************)
\* config.PLANETARY_ORDER: the Chaldean order
PLANETARY_ORDER == <<"Saturn", "Jupiter", "Mars", "Sun", "Venus", "Mercury", "Moon">>

\* list(DECANATES.keys()): Aries first
signs ==
    <<"aries", "taurus", "gemini", "cancer", "leo", "virgo",
      "libra", "scorpio", "sagittarius", "capricorn", "aquarius", "pisces">>

\* config.DECANATES: sign -> [ruler of decan 0, of decan 1, of decan 2]
DECANATES ==
    [aries       |-> <<"Mars", "Sun", "Venus">>,
     taurus      |-> <<"Mercury", "Moon", "Saturn">>,
     gemini      |-> <<"Jupiter", "Mars", "Sun">>,
     cancer      |-> <<"Venus", "Mercury", "Moon">>,
     leo         |-> <<"Saturn", "Jupiter", "Mars">>,
     virgo       |-> <<"Sun", "Venus", "Mercury">>,
     libra       |-> <<"Moon", "Saturn", "Jupiter">>,
     scorpio     |-> <<"Mars", "Sun", "Venus">>,
     sagittarius |-> <<"Mercury", "Moon", "Saturn">>,
     capricorn   |-> <<"Jupiter", "Mars", "Sun">>,
     aquarius    |-> <<"Venus", "Mercury", "Moon">>,
     pisces      |-> <<"Saturn", "Jupiter", "Mars">>]

\* int(x / y) for y > 0: the quotient truncated toward zero
IntDiv(x, y) == IF x >= 0 THEN x \div y ELSE -((-x) \div y)

\* what astral or the ephemeris raised instead of answering
OracleError == [kind |-> "OracleError"]

\* t = [weekday, today, sunrise, sunset, lon_sun, raises]; the spans used are
\* multiples of 12 minutes, so duration is exact
get_current_planetary_influence(t) ==
    LET is_day == t.sunrise <= t.today /\ t.today <= t.sunset
        duration == IF is_day THEN (t.sunset - t.sunrise) \div 12
                    ELSE ((t.sunrise + 1440) - t.sunset) \div 12
        idx == IntDiv(t.today - (IF is_day THEN t.sunrise ELSE t.sunset), duration)
        ruler_index == (t.weekday + idx) % 7
        sign_idx == t.lon_sun \div 30
        degree_in_sign == t.lon_sun % 30
        decan_idx == degree_in_sign \div 10
        sign_name == signs[sign_idx + 1]
    \* is_day and idx are locals of the function, kept next to what it returns
    IN  IF t.raises THEN OracleError
        ELSE [kind |-> "influence",
              planetary_hour |-> PLANETARY_ORDER[ruler_index + 1],
              sign |-> sign_name,
              decan_ruler |-> DECANATES[sign_name][decan_idx + 1],
              is_day |-> is_day,
              idx |-> idx]

(***************************************************************************)
(* main.py: the Tk variables of run_gui and the callbacks traced on them   *)
(***************************************************************************)
\* str.lower() on the names DECANATES holds
LowerCased ==
    [Saturn |-> "saturn", Jupiter |-> "jupiter", Mars |-> "mars", Sun |-> "sun",
     Venus |-> "venus", Mercury |-> "mercury", Moon |-> "moon"]

Lower(name) == LowerCased[name]

\* the state run_gui builds before mainloop(); the frames are not packed yet.
\* messagebox is the dialog the last event opened, escaped whether an exception
\* left its callback, influence what the oracle last answered, oracle_failed
\* whether the oracle raised during the last event.
GuiInit ==
    [phrase_entry   |-> <<>>,
     method_var     |-> "classical",
     planet_var     |-> "jupiter",
     alphabet_var   |-> "latin",
     influence_var  |-> FALSE,
     strict_var     |-> FALSE,
     planet_combo   |-> "normal",
     planet_frame   |-> FALSE,
     alphabet_frame |-> FALSE,
     messagebox     |-> "none",
     escaped        |-> FALSE,
     oracle_failed  |-> FALSE,
     influence      |-> [kind |-> "none"]]

\* a new event: no dialog open, nothing raised yet
Event(g) == [g EXCEPT !.messagebox = "none", !.escaped = FALSE, !.oracle_failed = FALSE]

\* o is what get_current_planetary_influence() answers if it is called
update_influence_info(g, o) ==
    IF g.influence_var
    THEN IF o.kind = "influence"
         THEN LET shown == [g EXCEPT !.influence = o, !.messagebox = "showinfo"]
              IN  IF g.method_var = "kamea" /\ g.strict_var
                  THEN [shown EXCEPT !.planet_var = Lower(o.decan_ruler),
                                     !.planet_combo = "disabled"]
                  ELSE shown
         ELSE [g EXCEPT !.influence = o, !.oracle_failed = TRUE, !.messagebox = "showerror"]
    ELSE [g EXCEPT !.planet_combo = "normal"]

\* the oracle is called outside any try: its exception leaves the callback
update_strict_mode(g, o) ==
    IF g.strict_var /\ g.influence_var /\ g.method_var = "kamea"
    THEN IF o.kind = "influence"
         THEN [g EXCEPT !.influence = o,
                        !.planet_var = Lower(o.decan_ruler),
                        !.planet_combo = "disabled"]
         ELSE [g EXCEPT !.influence = o, !.oracle_failed = TRUE, !.escaped = TRUE]
    ELSE [g EXCEPT !.planet_combo = "normal"]

update_planet_visibility(g) ==
    IF g.method_var = "kamea"
    THEN [g EXCEPT !.planet_frame = TRUE, !.alphabet_frame = TRUE]
    ELSE [g EXCEPT !.planet_frame = FALSE, !.alphabet_frame = FALSE]

RECURSIVE LStrip(_)
LStrip(s) == IF s # <<>> /\ Head(s) = "SPACE" THEN LStrip(Tail(s)) ELSE s

RECURSIVE RStrip(_)
RStrip(s) ==
    IF s # <<>> /\ s[Len(s)] = "SPACE" THEN RStrip(SubSeq(s, 1, Len(s) - 1)) ELSE s

\* str.strip()
Strip(s) == RStrip(LStrip(s))

\* the exceptions `except ValueError` catches
ValueErrors == {"EmptyResult", "UnknownPlanet", "UnsupportedAlphabet", "InvalidLiteral"}

\* generate() from normalize_text on: the text handed to generate_sigil and
\* what the encoder returned or raised
GenerateRun(phrase, method, planet, alphabet) ==
    LET norm_text == normalize_text(phrase, alphabet)
    IN  IF norm_text.kind # "str"
        THEN [text |-> <<>>, outcome |-> Raised(norm_text.kind, <<>>)]
        ELSE [text |-> norm_text.value,
              outcome |-> generate_sigil(norm_text.value, method, planet, alphabet)]

(***************************************************************************)
(* The text layer as a state machine: one call, then its result            *)
(***************************************************************************)
\* the characters raw phrases are drawn from
InputChars ==
    {"b", "e_acute", "e_grave", "n_tilde", "sharp_s", "SPACE", "D0", "D5", "ALEF", "SUP2"}

\* the strings the documentation works through
CafeNandu == <<"c","a","f","e_acute","SPACE","N_TILDE","a","n","d","u_acute","SPACE","D1","D2","D3">>

Hello == <<"H","E","L","L","O">>

Protection == <<"P","R","O","T","E","C","T","I","O","N">>

Examples ==
    {CafeNandu, Hello, Protection, <<"A","E","I","O","U">>, <<"D1","D2","D3">>,
     <<"b","n_tilde","b">>, <<"b","D5","s">>}

Phrases == SeqsUpTo(InputChars, MaxLen) \cup Examples

AlphabetArgs == {"latin", "hebrew", "greek"}

Idle == [fn |-> "none"]

InitText ==
    /\ raw \in Phrases
    /\ call = Idle
    /\ ret = Idle
    /\ gui = GuiInit
    /\ prev = Idle

\* normalize_text(raw, a)
Normalize(a) ==
    /\ call = Idle
    /\ call' = [fn |-> "normalize_text", text |-> raw, alphabet |-> a, again |-> FALSE]
    /\ ret' = normalize_text(raw, a)
    /\ UNCHANGED <<raw, gui, prev>>

\* normalize_text applied to what normalize_text returned, same alphabet
NormalizeAgain ==
    /\ call.fn = "normalize_text"
    /\ ~call.again
    /\ ret.kind = "str"
    /\ call' = [call EXCEPT !.text = ret.value, !.again = TRUE]
    /\ ret' = normalize_text(ret.value, call.alphabet)
    /\ UNCHANGED <<raw, gui, prev>>

\* clean_spare_text(raw)
CleanSpare ==
    /\ call = Idle
    /\ call' = [fn |-> "clean_spare_text", text |-> raw]
    /\ ret' = Str(clean_spare_text(raw))
    /\ UNCHANGED <<raw, gui, prev>>

(***************************************************************************)
(* Claims about the normaliser and the Spare reducer                       *)
(***************************************************************************)
RECURSIVE FlatMap(_, _)
FlatMap(F(_), s) == IF s = <<>> THEN <<>> ELSE F(Head(s)) \o FlatMap(F, Tail(s))

IsNormalize == call.fn = "normalize_text"

\* C1: normalising what normalize_text returned, with the same alphabet,
\* returns it unchanged (latin and hebrew).
C1_NormalizeIdempotent ==
    (IsNormalize /\ call.again) => ret = Str(call.text)

\* a second pass over a first pass that dropped or rewrote characters and kept some
C1_Witness ==
    /\ IsNormalize /\ call.again
    /\ call.text # raw
    /\ call.text # <<>>
    /\ ret = Str(call.text)

\* What Latin mode is to keep of one character: a preserved accented letter as
\* its upper-case accented form, any other letter as its upper-case base
\* letter(s), an ASCII digit as itself, nothing of anything else.
LatinImage(ch) ==
    IF ch \in SpecialUpper THEN <<ch>>
    ELSE IF ch \in SpecialLower THEN <<SPECIAL_UPPER[IndexOf(SPECIAL_LOWER, ch) + 1]>>
    ELSE IF ch \in UpperLatin THEN <<ch>>
    ELSE IF ch \in LowerLatin THEN <<UPPER_LATIN[IndexOf(LOWER_LATIN, ch) + 1]>>
    ELSE IF ch \in {"e_grave", "E_GRAVE"} THEN <<"E">>
    ELSE IF ch = "sharp_s" THEN <<"S", "S">>
    ELSE IF ch \in AsciiDigits THEN <<ch>>
    ELSE <<>>

\* C2: in Latin mode the result is, character by character and in input order,
\* the kept image of each input character: preserved accents stay, other
\* accents fold to the base letter, everything else is dropped, nothing is
\* substituted; "café Ñandú 123" gives "CAFÉÑANDÚ123" and "" gives "".
C2_LatinKeepsAllowedSubsequence ==
    (IsNormalize /\ ~call.again /\ call.alphabet = "latin") =>
        /\ ret = Str(FlatMap(LatinImage, call.text))
        /\ Range(ret.value) \subseteq LatinAllowed
        /\ (call.text = CafeNandu =>
              ret.value = <<"C","A","F","E_ACUTE","N_TILDE","A","N","D","U_ACUTE","D1","D2","D3">>)
        /\ (call.text = <<>> => ret = Str(<<>>))

\* a Latin call that kept an accent, folded another and dropped a character
C2_Witness ==
    /\ IsNormalize /\ ~call.again /\ call.alphabet = "latin"
    /\ \/ call.text = CafeNandu
       \/ call.text = <<"e_grave", "e_acute">>
       \/ call.text = <<"ALEF", "n_tilde">>
    /\ Len(ret.value) >= 1

IsClean == call.fn = "clean_spare_text"

\* 0-based position of the first occurrence
FirstIndex(s, ch) == IndexOf(s, ch)

\* C3: clean_spare_text returns the distinct alphabetic non-vowel characters
\* of the upper-cased phrase in order of first occurrence: no vowel of
\* AEIOUÁÉÍÓÚÜ, nothing twice, nothing non-alphabetic, every consonant once;
\* "HELLO" gives "HL".
C3_SpareDistinctConsonants ==
    IsClean =>
        LET u == Upper(call.text)
            out == ret.value
        IN  /\ \A i \in 1..Len(out) : IsAlpha(out[i]) /\ out[i] \notin SpareVowels
            /\ \A i, j \in 1..Len(out) : i # j => out[i] # out[j]
            /\ Range(out) = {c \in Range(u) : IsAlpha(c) /\ c \notin SpareVowels}
            /\ \A i, j \in 1..Len(out) :
                  i < j => FirstIndex(u, out[i]) < FirstIndex(u, out[j])
            /\ (call.text = Hello => out = <<"H", "L">>)

\* a phrase with a repeated consonant and a second consonant
C3_Witness ==
    /\ IsClean
    /\ LET u == Upper(call.text)
       IN  \E i, j \in 1..Len(u) : i < j /\ u[i] = u[j] /\ u[i] \in Range(ret.value)
    /\ Len(ret.value) >= 2

(***************************************************************************)
(* Claims about the encoders                                               *)
(***************************************************************************)
IsEncode == call.fn \in Methods

\* the two errors kamea raises for its planet and alphabet arguments
ArgumentErrors == {"UnknownPlanet", "UnsupportedAlphabet"}

\* C4: an encoder never returns an empty point sequence: it returns at least
\* one point, or fails with the EmptyResult ValueError when nothing is left
\* after filtering (argument errors of kamea aside).
C4_PointsOrEmptyResult ==
    (IsEncode /\ ret.kind \notin ArgumentErrors) =>
        /\ ret.kind \in {"points", "EmptyResult"}
        /\ ret.kind = "points" => Len(ret.ems) >= 1

\* how many cells of a planet's square hold v
CellCount(planet, v) ==
    LET square == KAMEA_SQUARES(planet)
        size == Len(square)
    IN  Cardinality({<<r, c>> \in (1..size) \X (1..size) : square[r][c] = v})

\* the most points one character can add
FanOut(c) ==
    CASE c.fn = "planetary" -> 7
      [] c.fn = "kamea" ->
            LET size == Len(KAMEA_SQUARES(c.planet))
                counts == {CellCount(c.planet, v) : v \in 0..(size * size)}
            IN  CHOOSE m \in counts : \A n \in counts : n <= m
      [] OTHER -> 1

\* the points character i of the walked text added
From(ems, i) == SelectSeq(ems, LAMBDA e : e.src = i)

\* points in the order of the characters that produced them, each character
\* within its fan-out
InCharacterOrder(c, r) ==
    /\ \A j, k \in 1..Len(r.ems) : j < k => r.ems[j].src <= r.ems[k].src
    /\ \A j \in 1..Len(r.ems) : r.ems[j].src \in 1..Len(r.walked)
    /\ \A i \in 1..Len(r.walked) : Len(From(r.ems, i)) <= FanOut(c)
    /\ c.fn = "planetary" =>
          \A i \in 1..Len(r.walked) :
             LET mine == From(r.ems, i)
             IN  /\ Len(mine) = Cardinality({p \in Range(planets) : r.walked[i] \in PLANETARY_MAP(p)})
                 /\ \A j, k \in 1..Len(mine) : j < k => mine[j].pt.a < mine[k].pt.a
    /\ c.fn = "kamea" =>
          \A i \in 1..Len(r.walked), v \in 0..81 :
             (\E e \in Range(From(r.ems, i)) :
                 KAMEA_SQUARES(c.planet)[e.pt.a + 1][e.pt.b + 1] = v)
             => Len(From(r.ems, i)) = CellCount(c.planet, v)

\* C5 as stated: the result is the per-character points in input order, at
\* most 7 / cell-count / 1 per character, so its length is at most the input
\* length times the fan-out.
C5_LengthWithinInputLength ==
    (IsEncode /\ ret.kind = "points") =>
        /\ InCharacterOrder(call, ret)
        /\ Len(ret.ems) <= Len(call.text) * FanOut(call)

\* C5 amended: the characters are those of the text the encoder walks (after
\* its own upper-casing or normalisation), so the length is at most that
\* text's length times the fan-out, and at most the input length times the
\* fan-out when the input is a string normalize_text returned.
C5_LengthWithinWalkedLength ==
    (IsEncode /\ ret.kind = "points") =>
        /\ InCharacterOrder(call, ret)
        /\ Len(ret.ems) <= Len(ret.walked) * FanOut(call)
        /\ call.normalized => Len(ret.ems) <= Len(call.text) * FanOut(call)

\* a planetary result where a character gave one point, the next was skipped
\* and a later one gave two
C5_Witness ==
    /\ call.fn = "planetary" /\ ret.kind = "points"
    /\ \E i, j, k \in 1..Len(ret.walked) :
          /\ i < j /\ j < k
          /\ Len(From(ret.ems, i)) = 1
          /\ Len(From(ret.ems, j)) = 0
          /\ Len(From(ret.ems, k)) = 2

\* the kamea calls C13 is about: a known planet whose square holds each of
\* 1..N² exactly once, a supported alphabet, and digits int() can read
IsKameaCall ==
    /\ call.fn = "kamea"
    /\ call.planet \in KameaKeys
    /\ call.alphabet \in {"latin", "hebrew"}
    /\ \A i \in 1..Len(call.text) : IsDigit(call.text[i]) => call.text[i] \in AsciiDigits
    /\ LET size == Len(KAMEA_SQUARES(call.planet))
       IN  \A v \in 1..(size * size) : CellCount(call.planet, v) = 1

\* the target the claim gives a character: (i mod N²) + 1 for the letter at
\* index i of the selected alphabet, the literal value for a digit, none (-1)
\* for anything else
KameaTarget(ch, alphabet, size) ==
    LET letters == IF alphabet = "latin" THEN LETTERS_EXT ELSE LETTERS_HEBREW
    IN  IF IndexOf(letters, ch) >= 0 THEN (IndexOf(letters, ch) % (size * size)) + 1
        ELSE IF ch \in AsciiDigits THEN IndexOf(ASCII_DIGITS, ch)
        ELSE -1

\* the cells of the planet's square that hold v, as the points of their centres
KameaCells(planet, v) ==
    LET square == KAMEA_SQUARES(planet)
        size == Len(square)
    IN  {Point("cell", r - 1, c - 1, size) : <<r, c>> \in
            {rc \in (1..size) \X (1..size) : square[rc[1]][rc[2]] = v}}

\* C13: in kamea, for a square that holds each of 1..N² once, every character
\* emits exactly the cells holding its target: one point for a letter of the
\* selected alphabet (target (i mod N²) + 1), one point for a digit 1..9
\* (target its literal value), none for "0" and for any other character, and
\* no character makes the call fail (only an empty result does).
C13_KameaEmitsTargetCells ==
    IsKameaCall =>
        LET size == Len(KAMEA_SQUARES(call.planet))
            target(i) == KameaTarget(call.text[i], call.alphabet, size)
            mine(i) == From(ret.ems, i)
        IN  /\ ret.kind \in {"points", "EmptyResult"}
            /\ \A i \in 1..Len(call.text) :
                  /\ {mine(i)[k].pt : k \in 1..Len(mine(i))} = KameaCells(call.planet, target(i))
                  /\ Len(mine(i)) = IF target(i) \in 1..(size * size) THEN 1 ELSE 0
            /\ ret.kind = "EmptyResult" <=>
                  \A i \in 1..Len(call.text) : target(i) \notin 1..(size * size)

\* a call whose text holds a letter of the alphabet, a digit above 0 or the
\* digit "0" next to a character that has a cell, and that returned points
C13_Witness ==
    /\ IsKameaCall
    /\ ret.kind = "points"
    /\ \E i, j \in 1..Len(call.text) :
          /\ call.text[i] = "D0"
          /\ Len(From(ret.ems, i)) = 0
          /\ KameaTarget(call.text[j], call.alphabet, Len(KAMEA_SQUARES(call.planet))) >= 1
          /\ Len(From(ret.ems, j)) = 1

\* C10: given a string normalize_text returned, an encoder skips every
\* character it has no index or mapping for: it returns points or fails with
\* EmptyResult, never with an error a character caused (KeyError, int()).
C10_NormalizedNeverOtherError ==
    (IsEncode /\ call.normalized) => ret.kind \notin {"KeyError", "InvalidLiteral"}

IsPair == call.fn = "classical_twice" /\ ret.first.kind = "points" /\ ret.second.kind = "points"

\* the consonants the two phrases share, as positions in the two results
Shared(r) ==
    {<<i, j>> \in (1..Len(r.first.walked)) \X (1..Len(r.second.walked)) :
        r.first.walked[i] = r.second.walked[j]}

\* C8 as stated: two phrases that contain the same consonant get it placed at
\* the same point, in direct calls with one rotation_deg and also when
\* classical is called as generate_sigil calls it.
C8_SamePointForAnyTwoPhrases ==
    (IsPair /\ (call.via = "generate_sigil" \/ call.rot1 = call.rot2)) => \A ij \in Shared(ret) : ret.first.ems[ij[1]].pt = ret.second.ems[ij[2]].pt

\* C8 amended: the point of a consonant is fixed by its alphabet index and
\* the rotation_deg of the call: two phrases place a shared consonant at the
\* same point exactly when their calls carry the same rotation_deg, which in
\* generate_sigil is (7 * len(phrase)) mod 360.
C8_SamePointForSameRotation ==
    IsPair =>
        \A ij \in Shared(ret) :
            LET p1 == ret.first.ems[ij[1]].pt
                p2 == ret.second.ems[ij[2]].pt
            IN  /\ p1.a = alpha_index[ret.first.walked[ij[1]]]
                /\ p1.c = call.rot1 /\ p2.c = call.rot2
                /\ (p1 = p2) <=> (call.rot1 = call.rot2)
                /\ call.via = "generate_sigil" =>
                      /\ call.rot1 = (7 * Len(call.text)) % 360
                      /\ call.rot2 = (7 * Len(call.other)) % 360

\* through generate_sigil, two phrases of different length that share a
\* consonant standing at different positions in them
C8_Witness ==
    /\ IsPair /\ call.via = "generate_sigil"
    /\ Len(call.text) # Len(call.other)
    /\ \E ij \in Shared(ret) : ij[1] # ij[2]

(***************************************************************************)
(* Claims about the oracle and the form                                    *)
(***************************************************************************)
IsInfluence == call.fn = "get_current_planetary_influence" /\ ret.kind = "influence"

\* the planetary ruler of each weekday, Monday first
DayRuler == <<"Moon", "Mars", "Mercury", "Jupiter", "Venus", "Saturn", "Sun">>

\* C7: with weekday Monday=0 and the Chaldean order, the ruler picked at hour
\* index 0 of the day is the planetary ruler of that weekday (Monday Moon,
\* Tuesday Mars, Wednesday Mercury, Thursday Jupiter, Friday Venus, Saturday
\* Saturn, Sunday Sun).
C7_FirstHourIsDayRuler ==
    (IsInfluence /\ ret.is_day /\ ret.idx = 0)
        => ret.planetary_hour = DayRuler[raw.weekday + 1]

\* C12: at every instant (daytime, evening, night after midnight) the hour
\* index the oracle computes is the zero-based index of the twelfth of the
\* active half-day that contains now: an integer in 0..11.
C12_HourIndexWithinTwelve ==
    IsInfluence => ret.idx \in 0..11

\* C6: whenever strict mode is on, planetary influence is on, the method is
\* kamea and the last oracle call succeeded, the Kamea planet is the decan
\* ruler that call gave and the planet selector is disabled.
C6_StrictLocksToDecanRuler ==
    (/\ gui.strict_var
     /\ gui.influence_var
     /\ gui.method_var = "kamea"
     /\ gui.influence.kind = "influence")
        => /\ gui.planet_var = Lower(gui.influence.decan_ruler)
           /\ gui.planet_combo = "disabled"

\* C14: every oracle failure a GUI event triggers is caught and shown in an
\* error dialog; none leaves its callback unreported.
C14_OracleFailureReported ==
    gui.oracle_failed => (gui.messagebox = "showerror" /\ ~gui.escaped)

\* two runs of generate on the same phrase, method and planet with different
\* alphabet selections
AlphabetOnlyDiffers ==
    /\ call.fn = "generate"
    /\ prev.fn = "generate"
    /\ call.phrase = prev.phrase
    /\ call.method = prev.method
    /\ call.planet = prev.planet
    /\ call.alphabet # prev.alphabet

\* C9: for classical, numeric, planetary and rosicrucian, two runs of generate
\* that differ only in the alphabet selector hand the same text to the encoder
\* and end the same way (same points or same error).
C9_AlphabetAffectsOnlyKamea ==
    (AlphabetOnlyDiffers /\ call.method # "kamea")
        => /\ call.text = prev.text
           /\ ret = prev.ret

\* the planet keys a call may name: the seven squares and an unknown key
PlanetArgs == Range(KameaPlanets) \cup {"vulcan"}

\* rotation_deg as callers pass it
RotationArgs == {0, 14}

\* the arguments each encoder reads: rotation_deg only in classical, planet and
\* alphabet only in kamea (the others are called with the defaults)
EncodeArgs(method, rot, planet, alphabet) ==
    /\ method = "classical" \/ rot = 0
    /\ method = "kamea" \/ (planet = "jupiter" /\ alphabet = "latin")

EncodeCall(method, text, rot, planet, alphabet, normalized) ==
    /\ call' = [fn |-> method, text |-> text, rotation_deg |-> rot,
                planet |-> IF method = "kamea" THEN planet ELSE "",
                alphabet |-> IF method = "kamea" THEN alphabet ELSE "",
                normalized |-> normalized]
    /\ ret' = Encoder(method, text, rot, planet, alphabet)
    /\ UNCHANGED <<raw, gui, prev>>

\* an encoder called on the raw phrase
Encode(method, rot, planet, alphabet) ==
    /\ call = Idle
    /\ EncodeArgs(method, rot, planet, alphabet)
    /\ EncodeCall(method, raw, rot, planet, alphabet, FALSE)

\* an encoder called on what normalize_text returned
EncodeNormalized(method, rot, planet, alphabet) ==
    /\ call.fn = "normalize_text"
    /\ ~call.again
    /\ ret.kind = "str"
    /\ EncodeArgs(method, rot, planet, alphabet)
    /\ EncodeCall(method, ret.value, rot, planet, alphabet, TRUE)

\* the second phrase of a comparison of two classical sigils
OtherPhrases ==
    {<<"b">>, <<"e_acute", "b">>, <<"sharp_s", "n_tilde">>, <<"b", "n_tilde", "b">>}

\* classical(raw, r1) and classical(other, r2), called directly
ClassicalTwice(other, r1, r2) ==
    /\ call = Idle
    /\ call' = [fn |-> "classical_twice", via |-> "direct", text |-> raw, other |-> other,
                rot1 |-> r1, rot2 |-> r2]
    /\ ret' = [kind |-> "pair", first |-> classical(raw, r1), second |-> classical(other, r2)]
    /\ UNCHANGED <<raw, gui, prev>>

\* generate_sigil(raw, ..., classical) and generate_sigil(other, ..., classical)
SigilTwice(other) ==
    /\ call = Idle
    /\ call' = [fn |-> "classical_twice", via |-> "generate_sigil", text |-> raw, other |-> other,
                rot1 |-> SigilRotation(raw), rot2 |-> SigilRotation(other)]
    /\ ret' = [kind |-> "pair",
               first |-> generate_sigil(raw, "classical", "jupiter", "latin"),
               second |-> generate_sigil(other, "classical", "jupiter", "latin")]
    /\ UNCHANGED <<raw, gui, prev>>

NextText ==
    \/ \E o \in OtherPhrases, r1, r2 \in RotationArgs : ClassicalTwice(o, r1, r2)
    \/ \E o \in OtherPhrases : SigilTwice(o)
    \/ \E a \in AlphabetArgs : Normalize(a)
    \/ NormalizeAgain
    \/ CleanSpare
    \/ \E m \in Methods, r \in RotationArgs, p \in PlanetArgs, a \in AlphabetArgs :
          Encode(m, r, p, a)
    \/ \E m \in Methods, r \in RotationArgs, p \in PlanetArgs, a \in AlphabetArgs :
          EncodeNormalized(m, r, p, a)

(***************************************************************************)
(* The oracle as a state machine: one instant, then the answer             *)
(***************************************************************************)
\* (sunrise, sunset) of the day, in minutes since midnight
SunTimes == {<<360, 1080>>, <<420, 1020>>, <<300, 1260>>}

\* the instants of `now`: every full hour of the day
Instants == {60 * h : h \in 0..23}

SunLongitudes == {0, 15, 29, 130, 275, 359}

OracleInputs ==
    {[weekday |-> w, today |-> n, sunrise |-> s[1], sunset |-> s[2],
      lon_sun |-> l, raises |-> r] :
        w \in 0..6, n \in Instants, s \in SunTimes, l \in SunLongitudes, r \in BOOLEAN}

InitOracle ==
    /\ raw \in OracleInputs
    /\ call = Idle
    /\ ret = Idle
    /\ gui = GuiInit
    /\ prev = Idle

\* get_current_planetary_influence() at the instant raw
Influence ==
    /\ call = Idle
    /\ call' = [fn |-> "get_current_planetary_influence"]
    /\ ret' = get_current_planetary_influence(raw)
    /\ UNCHANGED <<raw, gui, prev>>

NextOracle == Influence

(***************************************************************************)
(* The form as a state machine: one action per user event, each with the   *)
(* callback traced on the variable it writes                               *)
(***************************************************************************)
\* what the oracle may answer when a callback calls it
GuiOracle ==
    {get_current_planetary_influence(
        [weekday |-> 0, today |-> 720, sunrise |-> 360, sunset |-> 1080,
         lon_sun |-> l, raises |-> r]) : l \in {0, 15, 29, 130}, r \in BOOLEAN}

\* what the user types into the phrase entry
GuiPhrases ==
    {<<"b">>, <<"SPACE", "b", "SPACE">>, <<"ALEF">>, <<"SPACE">>, <<"e_acute", "D5">>}

InitGui ==
    /\ raw = <<>>
    /\ call = Idle
    /\ ret = Idle
    /\ gui = GuiInit
    /\ prev = Idle

\* click on "Use current planetary influence"
ToggleInfluence(o) ==
    /\ gui' = update_influence_info([Event(gui) EXCEPT !.influence_var = ~@], o)
    /\ UNCHANGED <<raw, call, ret, prev>>

\* click on "Strict mode"
ToggleStrict(o) ==
    /\ gui' = update_strict_mode([Event(gui) EXCEPT !.strict_var = ~@], o)
    /\ UNCHANGED <<raw, call, ret, prev>>

\* a choice in the method combobox
SelectMethod(m) ==
    /\ gui' = update_planet_visibility([Event(gui) EXCEPT !.method_var = m])
    /\ UNCHANGED <<raw, call, ret, prev>>

\* a choice in the planet combobox: its frame is packed and it is not disabled
SelectPlanet(p) ==
    /\ gui.planet_frame
    /\ gui.planet_combo = "normal"
    /\ gui' = [Event(gui) EXCEPT !.planet_var = p]
    /\ UNCHANGED <<raw, call, ret, prev>>

\* a choice in the alphabet combobox: its frame is packed
SelectAlphabet(a) ==
    /\ gui.alphabet_frame
    /\ gui' = [Event(gui) EXCEPT !.alphabet_var = a]
    /\ UNCHANGED <<raw, call, ret, prev>>

\* typing into the phrase entry
TypePhrase(s) ==
    /\ gui' = [Event(gui) EXCEPT !.phrase_entry = s]
    /\ UNCHANGED <<raw, call, ret, prev>>

\* click on "Generate Sigil"; filepath is what the save dialog returned
Generate(filepath) ==
    LET phrase == Strip(gui.phrase_entry)
        run == GenerateRun(phrase, gui.method_var, gui.planet_var, gui.alphabet_var)
    IN  IF phrase = <<>>
        THEN /\ gui' = [Event(gui) EXCEPT !.messagebox = "showerror"]
             /\ UNCHANGED <<raw, call, ret, prev>>
        ELSE IF filepath = ""
        THEN /\ gui' = Event(gui)
             /\ UNCHANGED <<raw, call, ret, prev>>
        ELSE /\ call' = [fn |-> "generate", phrase |-> phrase,
                         method |-> gui.method_var, planet |-> gui.planet_var,
                         alphabet |-> gui.alphabet_var, text |-> run.text]
             /\ ret' = run.outcome
             /\ prev' = IF call.fn = "generate"
                        THEN [fn |-> "generate", phrase |-> call.phrase,
                              method |-> call.method, planet |-> call.planet,
                              alphabet |-> call.alphabet, text |-> call.text,
                              ret |-> ret]
                        ELSE prev
             /\ gui' = [Event(gui) EXCEPT
                          !.messagebox = IF run.outcome.kind = "points" THEN "showinfo"
                                         ELSE IF run.outcome.kind \in ValueErrors
                                         THEN "showerror" ELSE "none",
                          !.escaped = run.outcome.kind \notin (ValueErrors \cup {"points"})]
             /\ UNCHANGED raw

NextGui ==
    \/ \E o \in GuiOracle : ToggleInfluence(o)
    \/ \E o \in GuiOracle : ToggleStrict(o)
    \/ \E m \in Methods : SelectMethod(m)
    \/ \E p \in KameaKeys : SelectPlanet(p)

NextGen ==
    \/ \E s \in GuiPhrases : TypePhrase(s)
    \/ \E m \in Methods : SelectMethod(m)
    \/ \E a \in {"latin", "hebrew"} : SelectAlphabet(a)
    \/ \E f \in {"", "sigil.png"} : Generate(f)

(***************************************************************************)
(* reduce_number as a state machine: the while loop, one iteration a step  *)
(***************************************************************************)
InitReduce ==
    /\ raw \in 0..MaxN
    /\ call = Idle
    /\ ret = Idle
    /\ gui = GuiInit
    /\ prev = Idle

\* reduce_number(raw) is entered; iterations counts the loop bodies run
ReduceCall ==
    /\ call = Idle
    /\ call' = [fn |-> "reduce_number", n |-> raw, iterations |-> 0]
    /\ UNCHANGED <<raw, ret, gui, prev>>

\* while n > 9: n = sum(int(d) for d in str(n))
ReduceLoop ==
    /\ call.fn = "reduce_number"
    /\ ret = Idle
    /\ call.n > 9
    /\ call' = [call EXCEPT !.n = DigitSum(call.n), !.iterations = @ + 1]
    /\ UNCHANGED <<raw, ret, gui, prev>>

\* return n
ReduceReturn ==
    /\ call.fn = "reduce_number"
    /\ ret = Idle
    /\ ~(call.n > 9)
    /\ ret' = [kind |-> "int", value |-> call.n]
    /\ UNCHANGED <<raw, call, gui, prev>>

NextReduce == ReduceCall \/ ReduceLoop \/ ReduceReturn

(***************************************************************************)
(* Claims about reduce_number                                              *)
(***************************************************************************)
ReduceReturned == call.fn = "reduce_number" /\ ret # Idle

\* what the claim says reduce_number(n) is
DigitalRoot(n) == IF n <= 9 THEN n ELSE 1 + ((n - 1) % 9)

vars == <<raw, call, ret, gui, prev>>

SpecText == InitText /\ [][NextText]_vars

SpecOracle == InitOracle /\ [][NextOracle]_vars

SpecGui == InitGui /\ [][NextGui]_vars

SpecGen == InitGui /\ [][NextGen]_vars

\* a call that has started runs on: the interpreter does not suspend the loop
SpecReduce == InitReduce /\ [][NextReduce]_vars /\ WF_vars(NextReduce)

Spec == SpecText

====
